---- MODULE Spec2Model ----
(***************************************************************************)
(* A model of scripts/rebuild_vx_json.py: the recursive rebuild of the     *)
(* per-folder sidecar files (vx.json) of a notebook.                       *)
(*                                                                         *)
(* Python strings are sequences of characters; a character is a one-letter *)
(* TLA+ string, or one of the two tokens SUP2 and SURR for characters that *)
(* cannot be written in ASCII.  A JSON value (Python's Any) is a record    *)
(* tagged by t; each tag has its own field for the payload.                *)
(***************************************************************************)
EXTENDS Integers, Sequences, FiniteSets, TLC

VARIABLES
    tree,      \* the directory tree: node -> [parent, name, kind, stat]
    mtime,     \* node -> st_mtime, in whole seconds
    disk,      \* directory node -> what lies at <dir>/vx.json
    disk0,     \* disk as it was before the first run
    clock,     \* the wall clock, in whole seconds
    pc,        \* "idle", "walk", "done", "fatal" (SystemExit), "crashed" (uncaught exception)
    dry,       \* args.dry_run of the current run
    verbose,   \* args.verbose of the current run
    stack,     \* the active calls of rebuild_recursively, innermost last
    visited,   \* the directories the current run has processed: <<dir, folders, md>>
    printed,   \* the per-directory lines the current run has printed
    writes,    \* the directories whose sidecar the current run has written, in order
    totals,    \* what rebuild_recursively(root) returned
    hist,      \* the finished runs
    starts,    \* how many more times the tool is started
    arg,       \* the signatures drawn for a directory that is rebuilt on its own
    res        \* the configuration built for it

vars == <<tree, mtime, disk, disk0, clock, pc, dry, verbose, stack, visited,
          printed, writes, totals, hist, starts, arg, res>>

walkVars == <<tree, mtime, disk, disk0, clock, pc, dry, verbose, stack, visited,
              printed, writes, totals, hist, starts>>

---------------------------------------------------------------------------
(* Characters and strings                                                  *)

\* U+00B2 SUPERSCRIPT TWO: str.isdigit() is True for it, it is no decimal digit.
SUP2 == "U+00B2"
\* U+D800, a lone surrogate: json.loads yields it for "\ud800", UTF-8 cannot encode it.
SURR == "U+D800"

DecDigits == <<"0", "1", "2", "3", "4", "5", "6", "7", "8", "9">>

UpperLetters == <<"A", "B", "C", "D", "E", "F", "G", "H", "I", "J", "K", "L", "M",
                  "N", "O", "P", "Q", "R", "S", "T", "U", "V", "W", "X", "Y", "Z">>

LowerLetters == <<"a", "b", "c", "d", "e", "f", "g", "h", "i", "j", "k", "l", "m",
                  "n", "o", "p", "q", "r", "s", "t", "u", "v", "w", "x", "y", "z">>

\* The characters of the model in code point order.
CodePoints == <<" ", "-", ".">> \o DecDigits \o UpperLetters \o <<"_">>
              \o LowerLetters \o <<SUP2, SURR>>

Range(s) == {s[i] : i \in 1..Len(s)}

IsDecDigit(c) == c \in Range(DecDigits)

\* One character of str.isdigit(): the decimal digits and the other digit characters.
IsDigitChar(c) == IsDecDigit(c) \/ c = SUP2

IsSpaceChar(c) == c = " "

Ord(c) == CHOOSE i \in 1..Len(CodePoints) : CodePoints[i] = c

LowerChar(c) ==
    IF c \in Range(UpperLetters)
    THEN LowerLetters[CHOOSE i \in 1..Len(UpperLetters) : UpperLetters[i] = c]
    ELSE c

\* str.lower() and str.casefold(): the same on the characters of the model.
Lower(s) == [i \in 1..Len(s) |-> LowerChar(s[i])]

Casefold(s) == Lower(s)

\* str.isdigit(): at least one character, and every character a digit.
IsDigit(s) == Len(s) > 0 /\ \A i \in 1..Len(s) : IsDigitChar(s[i])

\* A string of decimal digits, as the persisted format means it.
IsDecimal(s) == Len(s) > 0 /\ \A i \in 1..Len(s) : IsDecDigit(s[i])

RECURSIVE LStrip(_)
LStrip(s) == IF Len(s) > 0 /\ IsSpaceChar(s[1]) THEN LStrip(Tail(s)) ELSE s

RECURSIVE RStrip(_)
RStrip(s) ==
    IF Len(s) > 0 /\ IsSpaceChar(s[Len(s)]) THEN RStrip(SubSeq(s, 1, Len(s) - 1)) ELSE s

\* str.strip()
Strip(s) == RStrip(LStrip(s))

StartsWith(s, p) == Len(s) >= Len(p) /\ SubSeq(s, 1, Len(p)) = p

EndsWith(s, p) == Len(s) >= Len(p) /\ SubSeq(s, Len(s) - Len(p) + 1, Len(s)) = p

\* Python's < on strings: by code point, a proper prefix first.
RECURSIVE StrLess(_, _)
StrLess(a, b) ==
    IF Len(b) = 0 THEN FALSE
    ELSE IF Len(a) = 0 THEN TRUE
    ELSE IF a[1] # b[1] THEN Ord(a[1]) < Ord(b[1])
    ELSE StrLess(Tail(a), Tail(b))

\* str(n) of an int
RECURSIVE NatToStr(_)
NatToStr(n) == IF n < 10 THEN <<DecDigits[n + 1]>>
               ELSE NatToStr(n \div 10) \o <<DecDigits[(n % 10) + 1]>>

IntToStr(n) == IF n < 0 THEN <<"-">> \o NatToStr(0 - n) ELSE NatToStr(n)

\* str(True), str(False)
BoolToStr(b) == IF b THEN <<"T", "r", "u", "e">> ELSE <<"F", "a", "l", "s", "e">>

\* The value of a string of decimal digits is zero.
IsZeroDecimal(s) == IsDecimal(s) /\ \A i \in 1..Len(s) : s[i] = "0"

\* The largest value of getrandbits(63), 2^63 - 1, in decimal.
MaxSig63 == <<"9", "2", "2", "3", "3", "7", "2", "0", "3", "6", "8", "5", "4", "7", "7",
              "5", "8", "0", "7">>

RECURSIVE StripZeros(_)
StripZeros(s) == IF Len(s) > 1 /\ s[1] = "0" THEN StripZeros(Tail(s)) ELSE s

\* a <= b for two strings of decimal digits, by value.
DecLeq(a, b) ==
    LET x == StripZeros(a)
        y == StripZeros(b)
    IN  \/ Len(x) < Len(y)
        \/ Len(x) = Len(y) /\ (x = y \/ StrLess(x, y))

---------------------------------------------------------------------------
(* JSON values                                                             *)

JNone == [t |-> "none"]           \* a missing key, or null
JInt(n) == [t |-> "int", n |-> n]
JBool(b) == [t |-> "bool", b |-> b]
JStr(s) == [t |-> "str", s |-> s]
JFloat == [t |-> "float"]
JList(items) == [t |-> "list", items |-> items]
JDict(d) == [t |-> "dict", d |-> d]

\* isinstance(value, int): bool is a subclass of int.
IsInstanceInt(v) == v.t \in {"int", "bool"}

IsInstanceStr(v) == v.t = "str"

\* The number an int (or a bool used as one) stands for.
IntValue(v) == IF v.t = "bool" THEN (IF v.b THEN 1 ELSE 0) ELSE v.n

\* str(value) of an int or a bool
PyStr(v) == IF v.t = "bool" THEN BoolToStr(v.b) ELSE IntToStr(v.n)

\* isinstance(value, str) and value
NonEmptyStr(v) == v.t = "str" /\ Len(v.s) > 0

\* Optional[str]
Nothing == [some |-> FALSE]
Some(s) == [some |-> TRUE, s |-> s]

\* opt or default
OrElse(opt, default) == IF opt.some /\ Len(opt.s) > 0 THEN opt.s ELSE default

---------------------------------------------------------------------------
(* Identifier and signature parsing                                        *)

parse_id_like(value) ==
    IF IsInstanceInt(value)
    THEN (IF IntValue(value) >= 0 THEN Some(PyStr(value)) ELSE Nothing)
    ELSE IF IsInstanceStr(value)
    THEN (IF IsDigit(Strip(value.s)) THEN Some(Strip(value.s)) ELSE Nothing)
    ELSE Nothing

parse_signature_like(value) ==
    LET parsed == parse_id_like(value)
    IN  IF ~parsed.some THEN Nothing
        ELSE IF parsed.s # <<"0">> THEN parsed ELSE Nothing

\* What rng.getrandbits(63) may return, as far as the model's integers reach.
RandBits == {0, 1, 2147483647}

\* generate_signature: what it may return; the loop ends with the first draw > 0.
generate_signature == {IntToStr(sig) : sig \in {r \in RandBits : r > 0}}

\* "id": parse_id_like(existing.get("id")) or "0"
IdField(raw) == OrElse(parse_id_like(raw), <<"0">>)

\* "signature": parse_signature_like(existing.get("signature")) or generate_signature(rng);
\* fresh is what generate_signature returns if it is called.
NeedsSignature(raw) == ~(parse_signature_like(raw).some)

SignatureField(raw, fresh) == OrElse(parse_signature_like(raw), fresh)

---------------------------------------------------------------------------
(* Program constants                                                       *)

CONFIG_FILE_NAME == <<"v", "x", ".", "j", "s", "o", "n">>

NOTE_SUFFIX == <<".", "m", "d">>

DEFAULT_CONFIG_VERSION == 3

BUILT_IN_DIR_NAMES ==
    { <<"v", "x", "_", "n", "o", "t", "e", "b", "o", "o", "k">>,
      <<"v", "x", "_", "r", "e", "c", "y", "c", "l", "e", "_", "b", "i", "n">>,
      <<"v", "x", "_", "i", "m", "a", "g", "e", "s">>,
      <<"v", "x", "_", "a", "t", "t", "a", "c", "h", "m", "e", "n", "t", "s">>,
      <<"_", "v", "_", "i", "m", "a", "g", "e", "s">>,
      <<"_", "v", "_", "a", "t", "t", "a", "c", "h", "m", "e", "n", "t", "s">> }

NODE_VISUAL_KEYS == <<"background_color", "border_color", "name_color">>

ATTACHMENT_ROOT_CANDIDATES ==
    << <<"v", "x", "_", "a", "t", "t", "a", "c", "h", "m", "e", "n", "t", "s">>,
       <<"_", "v", "_", "a", "t", "t", "a", "c", "h", "m", "e", "n", "t", "s">> >>

AssetsSuffix == <<"_", "a", "s", "s", "e", "t", "s">>

---------------------------------------------------------------------------
(* The file system                                                         *)
(* A tree T maps a node to [parent, name, kind, stat]; node 0 is the       *)
(* notebook root, as main resolved it.  kind is "dir", "file", "linkdir"   *)
(* or "linkfile" (a symbolic link to a directory or to a file), "other" (a *)
(* socket, a device), or "missing".  stat tells whether st_mtime can be    *)
(* read.  A listing entry is [name, kind, id].                             *)

is_symlink(kind) == kind \in {"linkdir", "linkfile"}

is_dir(kind) == kind \in {"dir", "linkdir"}

is_file(kind) == kind \in {"file", "linkfile"}

\* The index of the last "." of a name, 0 if it has none (str.rfind, counted from 1).
RECURSIVE RFindDot(_, _)
RFindDot(name, i) ==
    IF i = 0 THEN 0 ELSE IF name[i] = "." THEN i ELSE RFindDot(name, i - 1)

\* PurePath.suffix: from the last dot, unless the name starts or ends with it.
Suffix(name) ==
    LET i == RFindDot(name, Len(name))
    IN  IF 1 < i /\ i < Len(name) THEN SubSeq(name, i, Len(name)) ELSE <<>>

\* PurePath.stem
Stem(name) ==
    LET i == RFindDot(name, Len(name))
    IN  IF 1 < i /\ i < Len(name) THEN SubSeq(name, 1, i - 1) ELSE name

is_hidden_name(name) == StartsWith(name, <<".">>)

\* The rules with the name taken as it is spelt.
should_exclude_dir_as_spelt(name) ==
    IF is_hidden_name(name) THEN TRUE
    ELSE IF EndsWith(name, AssetsSuffix) THEN TRUE
    ELSE IF name \in BUILT_IN_DIR_NAMES THEN TRUE
    ELSE FALSE

should_exclude_dir(name) ==
    LET low == Lower(name)
    IN  IF is_hidden_name(name) THEN TRUE
        ELSE IF EndsWith(low, AssetsSuffix) THEN TRUE
        ELSE IF low \in BUILT_IN_DIR_NAMES THEN TRUE
        ELSE FALSE

\* The key of a sort by the name as it is spelt.
SpeltName(e) == e.name

\* key=lambda p: p.name.casefold()
CasefoldName(e) == Casefold(e.name)

\* list.sort(key=...) is stable: an entry goes after the entries whose key is not greater.
RECURSIVE InsertByName(_, _)
InsertByName(sorted, e) ==
    IF sorted = <<>> THEN <<e>>
    ELSE IF StrLess(CasefoldName(e), CasefoldName(Head(sorted))) THEN <<e>> \o sorted
    ELSE <<Head(sorted)>> \o InsertByName(Tail(sorted), e)

\* seq.sort(key=lambda p: p.name.casefold())
RECURSIVE SortByName(_)
SortByName(seq) ==
    IF seq = <<>> THEN <<>>
    ELSE InsertByName(SortByName(SubSeq(seq, 1, Len(seq) - 1)), seq[Len(seq)])

IsIncludedFolder(child) ==
    /\ child.name # CONFIG_FILE_NAME
    /\ ~is_symlink(child.kind)
    /\ is_dir(child.kind)
    /\ ~should_exclude_dir(child.name)

IsIncludedNote(child) ==
    /\ child.name # CONFIG_FILE_NAME
    /\ ~is_symlink(child.kind)
    /\ ~is_dir(child.kind)
    /\ is_file(child.kind)
    /\ Lower(Suffix(child.name)) = NOTE_SUFFIX

\* iter_children, on what dir_path.iterdir() yields.
iter_children(listing) ==
    [folders |-> SortByName(SelectSeq(listing, IsIncludedFolder)),
     notes   |-> SortByName(SelectSeq(listing, IsIncludedNote))]

\* The nodes of a tree, in the order iterdir yields them.
Nodes(T) == DOMAIN T

NodeSeq(T) == [i \in 1..Cardinality(DOMAIN T) |-> i - 1]

EntryOf(T, n) == [name |-> T[n].name, kind |-> T[n].kind, id |-> n]

\* The kind of the path dir / name: "missing" if the directory has no such child.
KindAt(T, dir, name) ==
    IF \E n \in Nodes(T) : n # 0 /\ T[n].parent = dir /\ T[n].name = name
    THEN T[CHOOSE n \in Nodes(T) : n # 0 /\ T[n].parent = dir /\ T[n].name = name].kind
    ELSE "missing"

NodeAt(T, dir, name) ==
    CHOOSE n \in Nodes(T) : n # 0 /\ T[n].parent = dir /\ T[n].name = name

\* The children of a directory of the tree, as listing entries.
TreeChildren(T, dir) ==
    LET IsChild(n) == n # 0 /\ T[n].parent = dir
        kids == SelectSeq(NodeSeq(T), IsChild)
    IN  [i \in 1..Len(kids) |-> EntryOf(T, kids[i])]

---------------------------------------------------------------------------
(* Existing state                                                          *)
(* What lies at <dir>/vx.json is [k |-> "missing"], [k |-> "isdir"] (a     *)
(* directory of that name), [k |-> "unreadable"] (a file that cannot be    *)
(* read), [k |-> "text"] (a file that is not valid JSON; an empty file is  *)
(* one) or [k |-> "json", data |-> v], a file whose text denotes v.        *)

EmptyDict == [k \in {} |-> JNone]

\* d.get(key)
Get(d, key) == IF key \in DOMAIN d THEN d[key] ELSE JNone

load_existing_config(sidecar) ==
    IF sidecar.k \in {"missing", "isdir"} THEN EmptyDict      \* not path.is_file()
    ELSE IF sidecar.k \in {"unreadable", "text"} THEN EmptyDict  \* except Exception
    ELSE IF sidecar.data.t = "dict" THEN sidecar.data.d ELSE EmptyDict

RECURSIVE MapEntries(_, _)
MapEntries(items, result) ==
    IF items = <<>> THEN result
    ELSE LET item == Head(items)
             name == IF item.t = "dict" THEN Get(item.d, "name") ELSE JNone
         IN  IF item.t = "dict" /\ NonEmptyStr(name) /\ name.s \notin DOMAIN result
             THEN MapEntries(Tail(items), result @@ (name.s :> item.d))
             ELSE MapEntries(Tail(items), result)

\* The mapping in which a later entry of a name replaces the earlier one.
map_entries_keep_last(entries) ==
    IF entries.t # "list" THEN EmptyDict
    ELSE LET Mentions(name) ==
                 {i \in 1..Len(entries.items) :
                     /\ entries.items[i].t = "dict"
                     /\ NonEmptyStr(Get(entries.items[i].d, "name"))
                     /\ Get(entries.items[i].d, "name").s = name}
             names == {Get(entries.items[i].d, "name").s :
                          i \in {j \in 1..Len(entries.items) :
                                    /\ entries.items[j].t = "dict"
                                    /\ NonEmptyStr(Get(entries.items[j].d, "name"))}}
         IN  [name \in names |->
                 entries.items[CHOOSE i \in Mentions(name) :
                                  \A j \in Mentions(name) : j <= i].d]

map_entries_by_name(entries) ==
    IF entries.t # "list" THEN EmptyDict ELSE MapEntries(entries.items, EmptyDict)

\* mapping.get(name, {})
GetEntry(mapping, name) == IF name \in DOMAIN mapping THEN mapping[name] ELSE EmptyDict

---------------------------------------------------------------------------
(* Time                                                                    *)
(* A timestamp is [sec, sub]: whole seconds and whether a fraction of a    *)
(* second follows.  The ISO text of a second is written as its number with *)
(* the Z suffix; the calendar arithmetic is not modelled.                  *)

\* replace(microsecond=0), isoformat(), "+00:00" -> "Z"
iso_utc_from_timestamp(ts) == NatToStr(ts.sec) \o <<"Z">>

\* path.stat().st_mtime, or the wall clock if stat raises OSError
safe_mtime(T, mt, now, n) == IF T[n].stat THEN mt[n] ELSE [sec |-> now, sub |-> TRUE]

get_existing_time(existing, key, fallback_ts) ==
    LET value == Get(existing, key)
    IN  IF NonEmptyStr(value) THEN value.s ELSE iso_utc_from_timestamp(fallback_ts)

---------------------------------------------------------------------------
(* Reconciler                                                              *)

\* The first name among the sub-directories of root, "" if there is none.
FirstSubdir(T, root) ==
    LET IsSubdir(e) == is_dir(e.kind)
        subdirs == SortByName(SelectSeq(TreeChildren(T, root), IsSubdir))
    IN  IF Len(subdirs) >= 1 THEN subdirs[1].name ELSE <<>>

\* The single name among the sub-directories of root, "" unless there is exactly one.
SingleSubdir(T, root) ==
    LET IsSubdir(e) == is_dir(e.kind)
        subdirs == SortByName(SelectSeq(TreeChildren(T, root), IsSubdir))
    IN  IF Len(subdirs) = 1 THEN subdirs[1].name ELSE <<>>

RECURSIVE InferFrom(_, _, _)
InferFrom(T, assets_root, candidates) ==
    IF candidates = <<>> THEN <<>>
    ELSE IF ~is_dir(KindAt(T, assets_root, Head(candidates)))
         THEN InferFrom(T, assets_root, Tail(candidates))
    ELSE IF SingleSubdir(T, NodeAt(T, assets_root, Head(candidates))) # <<>>
         THEN SingleSubdir(T, NodeAt(T, assets_root, Head(candidates)))
    ELSE InferFrom(T, assets_root, Tail(candidates))

\* note is the listing entry of the note; its parent is the directory scanned.
infer_attachment_folder_from_assets(T, note) ==
    LET dir == T[note.id].parent
        assets_name == Stem(note.name) \o AssetsSuffix
    IN  IF ~is_dir(KindAt(T, dir, assets_name)) THEN <<>>
        ELSE InferFrom(T, NodeAt(T, dir, assets_name), ATTACHMENT_ROOT_CANDIDATES)

clean_tags(value) ==
    IF value.t # "list" THEN <<>> ELSE SelectSeq(value.items, NonEmptyStr)

\* The visual keys an entry takes over: those whose existing value is a non-empty string.
VisualKeys(existing) ==
    [key \in {k \in Range(NODE_VISUAL_KEYS) : NonEmptyStr(Get(existing, k))}
        |-> Get(existing, key)]

build_folder_entry(name, existing) ==
    [name |-> JStr(name)] @@ VisualKeys(existing)

\* fresh is what generate_signature returns if build_file_entry calls it.
build_file_entry(T, mt, now, note, existing, fresh) ==
    LET m == safe_mtime(T, mt, now, note.id)
        given == Get(existing, "attachment_folder")
        kept == IF IsInstanceStr(given) THEN given.s ELSE <<>>
        attachment_folder ==
            IF kept = <<>> THEN infer_attachment_folder_from_assets(T, note) ELSE kept
    IN  [name |-> JStr(note.name),
         id |-> JStr(IdField(Get(existing, "id"))),
         signature |-> JStr(SignatureField(Get(existing, "signature"), fresh)),
         created_time |-> JStr(get_existing_time(existing, "created_time", m)),
         modified_time |-> JStr(iso_utc_from_timestamp(m)),
         tags |-> JList(clean_tags(Get(existing, "tags"))),
         attachment_folder |-> JStr(attachment_folder)]
        @@ VisualKeys(existing)

\* fresh[i] is what generate_signature returns for the i-th note, and fresh[Len(notes) + 1]
\* for the folder itself, wherever it is called.
build_node_config(T, mt, now, dir, folders, notes, existing, fresh) ==
    LET m == safe_mtime(T, mt, now, dir)
        existing_files == map_entries_by_name(Get(existing, "files"))
        existing_folders == map_entries_by_name(Get(existing, "folders"))
        folder_entries ==
            [i \in 1..Len(folders) |->
                JDict(build_folder_entry(folders[i].name,
                                         GetEntry(existing_folders, folders[i].name)))]
        file_entries ==
            [i \in 1..Len(notes) |->
                JDict(build_file_entry(T, mt, now, notes[i],
                                       GetEntry(existing_files, notes[i].name), fresh[i]))]
        given == Get(existing, "version")
        version == IF IsInstanceInt(given) THEN given ELSE JInt(DEFAULT_CONFIG_VERSION)
    IN  [version |-> version,
         id |-> JStr(IdField(Get(existing, "id"))),
         signature |-> JStr(SignatureField(Get(existing, "signature"),
                                           fresh[Len(notes) + 1])),
         created_time |-> JStr(get_existing_time(existing, "created_time", m)),
         modified_time |-> JStr(iso_utc_from_timestamp(m)),
         files |-> JList(file_entries),
         folders |-> JList(folder_entries)]
        @@ VisualKeys(existing)

---------------------------------------------------------------------------
(* Writer                                                                  *)

\* A string of the value holds a lone surrogate: text.encode("utf-8") raises.
RECURSIVE HasSurrogate(_)
HasSurrogate(v) ==
    IF v.t = "str" THEN SURR \in Range(v.s)
    ELSE IF v.t = "list" THEN \E i \in 1..Len(v.items) : HasSurrogate(v.items[i])
    ELSE IF v.t = "dict" THEN \E key \in DOMAIN v.d : HasSurrogate(v.d[key])
    ELSE FALSE

\* write_json raises: open() on a directory, or the encoding of the text.
WriteRaises(sidecar, data) == sidecar.k = "isdir" \/ HasSurrogate(JDict(data))

\* What lies at the path after write_json: open(mode="w") has emptied or created the
\* file before the text is encoded, and json.loads of what was written gives data back.
write_json(sidecar, data) ==
    IF sidecar.k = "isdir" THEN sidecar
    ELSE IF HasSurrogate(JDict(data)) THEN [k |-> "text"]
    ELSE [k |-> "json", data |-> JDict(data)]

---------------------------------------------------------------------------
(* Orchestrator                                                            *)

\* What dir_path.iterdir() yields: the sidecar, if anything lies there, then the children.
Listing(dir) ==
    (IF disk[dir].k = "missing" THEN <<>>
     ELSE <<[name |-> CONFIG_FILE_NAME,
             kind |-> IF disk[dir].k = "isdir" THEN "dir" ELSE "file",
             id |-> -1]>>)
    \o TreeChildren(tree, dir)

\* The draws of one build_node_config: one per signature it has to generate.
FreshDraws(existing, notes) ==
    LET existing_files == map_entries_by_name(Get(existing, "files"))
        Needed(i) ==
            IF i <= Len(notes)
            THEN NeedsSignature(Get(GetEntry(existing_files, notes[i].name), "signature"))
            ELSE NeedsSignature(Get(existing, "signature"))
    IN  {f \in [1..(Len(notes) + 1) -> generate_signature] :
            \A i \in 1..(Len(notes) + 1) : ~Needed(i) => f[i] = <<"1">>}

\* --verbose: the runs of the model are started without it.
VerboseChoices == {FALSE}

\* if verbose or dry_run: print(...)
ShouldPrint(is_verbose, dry_run) == is_verbose \/ dry_run

\* A run that writes whatever the flag.
ShouldWriteAlways(dry_run) == TRUE

\* if not dry_run: write_json(...)
ShouldWrite(dry_run) == ~dry_run

\* What is kept of a run that has ended.
RunRecord ==
    [outcome |-> pc, dry |-> dry, verbose |-> verbose, visited |-> visited,
     printed |-> printed, writes |-> writes, totals |-> totals, after |-> disk]

\* main, up to its call of rebuild_recursively; the tool is started when no run is
\* under way.
Main ==
    /\ pc \in {"idle", "done", "fatal", "crashed"}
    /\ hist' = IF pc = "idle" THEN hist ELSE Append(hist, RunRecord)
    /\ starts > 0
    /\ starts' = starts - 1
    /\ \E d \in BOOLEAN, v \in VerboseChoices : dry' = d /\ verbose' = v
    /\ clock' = clock + 1
    /\ visited' = <<>>
    /\ printed' = <<>>
    /\ writes' = <<>>
    /\ totals' = <<0, 0, 0>>
    /\ IF ~is_dir(tree[0].kind)
       THEN pc' = "fatal" /\ stack' = <<>>
       ELSE pc' = "walk" /\ stack' = <<[dir |-> 0, ph |-> "call"]>>
    /\ UNCHANGED <<tree, mtime, disk, disk0, arg, res>>

\* rebuild_recursively, from its entry to the loop over the folders
Enter ==
    /\ pc = "walk"
    /\ stack # <<>>
    /\ stack[Len(stack)].ph = "call"
    /\ LET dir == stack[Len(stack)].dir
           existing == load_existing_config(disk[dir])
           sc == iter_children(Listing(dir))
           line == <<dir, Len(sc.folders), Len(sc.notes)>>
       IN  \E fresh \in FreshDraws(existing, sc.notes) :
              LET config == build_node_config(tree, mtime, clock, dir, sc.folders,
                                              sc.notes, existing, fresh)
              IN  /\ visited' = Append(visited, line)
                  /\ printed' = IF ShouldPrint(verbose, dry) THEN Append(printed, line)
                                 ELSE printed
                  /\ IF ~ShouldWrite(dry)
                     THEN /\ UNCHANGED <<disk, mtime, writes>>
                          /\ pc' = "walk"
                     ELSE /\ disk' = [disk EXCEPT ![dir] = write_json(disk[dir], config)]
                          /\ mtime' = IF disk[dir].k = "missing"
                                      THEN [mtime EXCEPT ![dir] = [sec |-> clock, sub |-> TRUE]]
                                      ELSE mtime
                          /\ IF WriteRaises(disk[dir], config)
                             THEN pc' = "crashed" /\ UNCHANGED writes
                             ELSE /\ pc' = "walk"
                                  /\ writes' = Append(writes, dir)
                  /\ stack' = IF ShouldWrite(dry) /\ WriteRaises(disk[dir], config)
                              THEN <<>>
                              ELSE [stack EXCEPT ![Len(stack)] =
                                     [dir |-> dir, ph |-> "loop", todo |-> sc.folders,
                                      counts |-> <<1, Len(sc.folders), Len(sc.notes)>>]]
    /\ UNCHANGED <<tree, disk0, clock, dry, verbose, totals, hist, starts, arg, res>>

\* for folder in folders: the call of rebuild_recursively(folder, ...)
Recurse ==
    /\ pc = "walk"
    /\ stack # <<>>
    /\ stack[Len(stack)].ph = "loop"
    /\ stack[Len(stack)].todo # <<>>
    /\ LET top == stack[Len(stack)]
       IN  stack' = Append([stack EXCEPT ![Len(stack)].todo = Tail(top.todo)],
                           [dir |-> Head(top.todo).id, ph |-> "call"])
    /\ UNCHANGED <<tree, mtime, disk, disk0, clock, pc, dry, verbose, visited, printed,
                   writes, totals, hist, starts, arg, res>>

AddCounts(a, b) == <<a[1] + b[1], a[2] + b[2], a[3] + b[3]>>

\* return total_configs, total_folders, total_notes: to the caller's loop, or to main,
\* which prints the three summary lines and returns 0.
Return ==
    /\ pc = "walk"
    /\ stack # <<>>
    /\ stack[Len(stack)].ph = "loop"
    /\ stack[Len(stack)].todo = <<>>
    /\ LET top == stack[Len(stack)]
           rest == SubSeq(stack, 1, Len(stack) - 1)
       IN  IF rest = <<>>
           THEN /\ stack' = <<>>
                /\ totals' = top.counts
                /\ pc' = "done"
           ELSE /\ stack' = [rest EXCEPT ![Len(rest)].counts =
                                AddCounts(rest[Len(rest)].counts, top.counts)]
                /\ UNCHANGED <<totals, pc>>
    /\ UNCHANGED <<tree, mtime, disk, disk0, clock, dry, verbose, visited, printed,
                   writes, hist, starts, arg, res>>

---------------------------------------------------------------------------
(* The notebooks of the model                                              *)

\* The entries below the notebook root.
MaxEntries == 2

\* Entry i is named after its letter, so that no directory holds a name twice and the
\* order of the names is not the order of the listing.
Letters == <<"b", "A", "c", "D">>

NoteName(i) == <<Letters[i], ".", "M", "d">>

RecycleBinName == <<"v", "x", "_", "r", "e", "c", "y", "c", "l", "e", "_", "b", "i", "n">>

\* What entry i may be: a folder, a note, a symbolic link to a directory, or one of three
\* folders the scan leaves out; from the third entry on, a folder or a note.
EntryShapes(i) ==
    << [name |-> <<Letters[i]>>, kind |-> "dir"],
       [name |-> NoteName(i), kind |-> "file"] >>
    \o (IF i > 2 THEN <<>>
        ELSE << [name |-> <<Letters[i]>>, kind |-> "linkdir"],
                [name |-> <<".", Letters[i]>>, kind |-> "dir"],
                [name |-> <<Letters[i], "_", "A", "s", "s", "e", "t", "s">>, kind |-> "dir"],
                [name |-> RecycleBinName, kind |-> "dir"] >>)

\* What the resolved notebook root may be. No code reads the root's name; it is one that
\* the scan would leave out at every rule.
RootShapes ==
    << [name |-> <<".", "n", "_", "a", "s", "s", "e", "t", "s">>, kind |-> "dir"],
       [name |-> <<"n">>, kind |-> "file"],
       [name |-> <<"n">>, kind |-> "missing"] >>

MkTree(k, root, es, par, bad) ==
    [n \in 0..k |->
        IF n = 0
        THEN [parent |-> -1, name |-> RootShapes[root].name,
              kind |-> RootShapes[root].kind, stat |-> bad # 0]
        ELSE [parent |-> par[n], name |-> EntryShapes(n)[es[n]].name,
              kind |-> EntryShapes(n)[es[n]].kind, stat |-> bad # n]]

ShapeChoices(k) ==
    {es \in [1..k -> 1..Len(EntryShapes(1))] : \A i \in 1..k : es[i] <= Len(EntryShapes(i))}

\* An entry lies in a directory made before it, and no directory holds a name twice;
\* only a directory has entries.
WellFormedTree(T, k) ==
    /\ T[0].kind # "dir" => k = 0
    /\ \A i \in 1..k :
          /\ T[i].parent < i
          /\ T[T[i].parent].kind = "dir"
          /\ \A j \in 1..(i - 1) : T[j].parent = T[i].parent => T[j].name # T[i].name

\* The trees of k entries; st_mtime is unreadable for no node, or for the last node of a
\* tree of at most two entries.
TreesOf(k) ==
    { T \in { MkTree(k, c.root, c.es, c.par, c.bad) :
                c \in [root : 1..Len(RootShapes), es : ShapeChoices(k),
                       par : [1..k -> 0..(k - 1)], bad : {-1} \cup ({k} \cap 0..2)] } :
        WellFormedTree(T, k) }

WalkTrees == UNION {TreesOf(k) : k \in 0..MaxEntries}

\* Existing sidecars.
StrX == <<"x">>

\* A sidecar as an earlier run of the notebook application left it.
DocGood ==
    [version |-> JInt(2), id |-> JStr(<<"5">>), signature |-> JStr(<<"7", "7">>),
     created_time |-> JStr(<<"0", "Z">>),
     files |-> JList([i \in 1..MaxEntries |->
                 JDict([name |-> JStr(NoteName(i)), id |-> JInt(40 + i),
                        signature |-> JStr(<<"9">>), tags |-> JList(<<JStr(StrX)>>),
                        attachment_folder |-> JStr(<<"i", "m", "g">>)])]),
     folders |-> JList(<<JDict([name |-> JStr(<<"A">>), name_color |-> JStr(<<"r">>)])>>)]

\* A sidecar with wrongly typed and doubled values.
DocOdd ==
    [version |-> JStr(StrX), id |-> JBool(TRUE), signature |-> JStr(<<"0">>),
     created_time |-> JStr(<<>>), border_color |-> JInt(4),
     files |-> JList(<<JInt(1),
                       JDict([name |-> JStr(NoteName(1)), id |-> JStr(<<" ", "7", " ">>),
                              signature |-> JBool(FALSE),
                              tags |-> JList(<<JStr(StrX), JStr(<<>>), JInt(5)>>),
                              attachment_folder |-> JInt(0)]),
                       JDict([name |-> JStr(NoteName(1)), id |-> JStr(<<"8">>)])>>),
     folders |-> JStr(StrX)]

\* A sidecar whose tags hold a lone surrogate, as "\ud800" in its text gives.
DocSurrogate ==
    [id |-> JStr(<<"3">>),
     files |-> JList([i \in 1..MaxEntries |->
                 JDict([name |-> JStr(NoteName(i)), tags |-> JList(<<JStr(<<SURR>>)>>)])])]

\* What may lie at the root's vx.json, and at the vx.json of a directory below it: of one
\* of the first two entries, that is; the directories after them have no sidecar yet.
RootSidecars ==
    { [k |-> "missing"], [k |-> "unreadable"], [k |-> "text"],
      [k |-> "json", data |-> JList(<<>>)], [k |-> "json", data |-> JDict(DocGood)],
      [k |-> "json", data |-> JDict(DocOdd)], [k |-> "json", data |-> JDict(DocSurrogate)] }

InnerSidecars ==
    { [k |-> "missing"], [k |-> "isdir"], [k |-> "json", data |-> JDict(DocSurrogate)] }

SidecarPool(T, n) ==
    IF T[n].kind # "dir" \/ n > 2 THEN {[k |-> "missing"]}
    ELSE IF n = 0 THEN RootSidecars ELSE InnerSidecars

\* The ways to fill the sidecars of the nodes 0..n.
RECURSIVE DiskChoices(_, _)
DiskChoices(T, n) ==
    IF n < 0 THEN {<<>>}
    ELSE {f @@ (n :> sc) : f \in DiskChoices(T, n - 1), sc \in SidecarPool(T, n)}

\* The state before the tool is first started n times, on one of the given trees with
\* one of the given sidecars at its root.
InitWith(n, trees, roots) ==
    /\ tree \in trees
    /\ mtime = [m \in DOMAIN tree |-> [sec |-> 1, sub |-> TRUE]]
    /\ disk \in {d \in DiskChoices(tree, Cardinality(DOMAIN tree) - 1) : d[0] \in roots}
    /\ disk0 = disk
    /\ clock = 1
    /\ pc = "idle"
    /\ dry = FALSE
    /\ verbose = FALSE
    /\ stack = <<>>
    /\ visited = <<>>
    /\ printed = <<>>
    /\ writes = <<>>
    /\ totals = <<0, 0, 0>>
    /\ hist = <<>>
    /\ starts = n
    /\ arg = <<>>
    /\ res = <<>>

Init == InitWith(1, WalkTrees, RootSidecars)

Next == Main \/ Enter \/ Recurse \/ Return

Spec == Init /\ [][Next]_vars

\* The tool run twice in a row: a readable tree, and no sidecar below the root.
RerunTrees == {T \in WalkTrees : T[0].kind = "dir" /\ \A n \in DOMAIN T : T[n].stat}

RerunSidecars ==
    { [k |-> "missing"], [k |-> "json", data |-> JDict(DocGood)],
      [k |-> "json", data |-> JDict(DocOdd)] }

InitRerun ==
    /\ InitWith(2, RerunTrees, RerunSidecars)
    /\ \A n \in DOMAIN tree : n # 0 => disk[n].k = "missing"

SpecRerun == InitRerun /\ [][Next]_vars

---------------------------------------------------------------------------
(* One directory rebuilt on its own                                        *)
(* The scan and the reconciliation of the root alone, nothing written and  *)
(* no folder entered, on four families of notebooks: raw ids and           *)
(* signatures, lists of existing entries, assets folders, and listings.    *)

MaxStrLen == 2
MaxExisting == 3
MaxSubdirs == 2
MaxListing == 3

\* A root and the entries beneath it, every st_mtime readable.
TreeOf(entries) ==
    [n \in 0..Len(entries) |->
        IF n = 0 THEN [parent |-> -1, name |-> <<"n">>, kind |-> "dir", stat |-> TRUE]
        ELSE [parent |-> entries[n].parent, name |-> entries[n].name,
              kind |-> entries[n].kind, stat |-> TRUE]]

NoteEntry(name) == [parent |-> 0, name |-> name, kind |-> "file"]

JsonFile(d) == [k |-> "json", data |-> JDict(d)]

\* Raw ids and signatures: null or no such key, numbers, booleans, a list, and the
\* strings of up to MaxStrLen characters.
RawChars == {"0", "7", " ", "x", SUP2}

RawStrings == UNION {[1..len -> RawChars] : len \in 0..MaxStrLen}

RawValues ==
    {JNone, JInt(-1), JInt(0), JInt(7), JBool(TRUE), JBool(FALSE), JFloat, JList(<<>>)}
    \cup {JStr(s) : s \in RawStrings}

FieldInputs ==
    { [tree |-> TreeOf(<<NoteEntry(NoteName(1))>>),
       sidecar |-> JsonFile([id |-> raw, signature |-> raw,
                             files |-> JList(<<JDict([name |-> JStr(NoteName(1)),
                                                      id |-> raw,
                                                      signature |-> raw])>>)])] :
        raw \in RawValues }

\* Lists of existing entries: two for the first note, one for the second, one for a note
\* that is gone, an item that is no object, and an object without a name.
GoneName == <<"g", ".", "m", "d">>

StrY == <<"y">>

EntryPool ==
    << JDict([name |-> JStr(NoteName(1)), id |-> JStr(<<"4", "2">>),
              tags |-> JList(<<JStr(StrX)>>)]),
       JDict([name |-> JStr(NoteName(1)), id |-> JInt(8), signature |-> JStr(<<"9">>),
              tags |-> JList(<<JStr(<<>>), JStr(StrY), JInt(5), JStr(StrX)>>)]),
       JDict([name |-> JStr(NoteName(2)), tags |-> JStr(StrX)]),
       JDict([name |-> JStr(GoneName), id |-> JStr(<<"9">>), tags |-> JList(<<JStr(StrY)>>)]),
       JInt(1),
       JDict([id |-> JStr(<<"6">>)]) >>

ExistingLists ==
    UNION { {[i \in 1..len |-> EntryPool[ix[i]]] : ix \in [1..len -> 1..Len(EntryPool)]} :
              len \in 0..MaxExisting }

MergeTrees ==
    { TreeOf(<<NoteEntry(NoteName(1)), NoteEntry(NoteName(2))>>),
      TreeOf(<<NoteEntry(NoteName(2))>>) }

MergeInputs ==
    { [tree |-> T, sidecar |-> JsonFile([signature |-> JStr(<<"7">>), files |-> JList(list)])] :
        T \in MergeTrees, list \in ExistingLists }

\* Assets folders.  Beside the first note lies nothing, or an entry named after its stem
\* or after its whole name; an attachment root is missing (-2), a file (-1), or a
\* directory of k sub-directories, and of a file if k > 0.
AssetsChoices ==
    << [name |-> <<Letters[1]>> \o AssetsSuffix, kind |-> "dir"],
       [name |-> <<Letters[1]>> \o AssetsSuffix, kind |-> "file"],
       [name |-> NoteName(1) \o AssetsSuffix, kind |-> "dir"] >>

RootChoices == {-2, -1} \cup 0..MaxSubdirs

SubNames == << <<"p", "q", "r", "s">>, <<"u", "v", "w", "y">> >>

\* The entries with the attachment root of the given number added under the node at.
WithRoot(entries, at, number, choice) ==
    IF choice = -2 THEN entries
    ELSE IF choice = -1
    THEN Append(entries, [parent |-> at, name |-> ATTACHMENT_ROOT_CANDIDATES[number],
                          kind |-> "file"])
    ELSE Append(entries, [parent |-> at, name |-> ATTACHMENT_ROOT_CANDIDATES[number],
                          kind |-> "dir"])
         \o [i \in 1..choice |-> [parent |-> Len(entries) + 1,
                                  name |-> <<SubNames[number][i]>>, kind |-> "dir"]]
         \o (IF choice > 0
             THEN <<[parent |-> Len(entries) + 1, name |-> <<"f">>, kind |-> "file"]>>
             ELSE <<>>)

AttachTrees ==
    {TreeOf(<<NoteEntry(NoteName(1))>>)}
    \cup { TreeOf(WithRoot(WithRoot(<<NoteEntry(NoteName(1)),
                                      [parent |-> 0, name |-> AssetsChoices[a].name,
                                       kind |-> AssetsChoices[a].kind]>>,
                                    2, 1, r1), 2, 2, r2)) :
             a \in {1, 3}, r1 \in RootChoices, r2 \in RootChoices }
    \cup {TreeOf(<<NoteEntry(NoteName(1)),
                   [parent |-> 0, name |-> AssetsChoices[2].name,
                    kind |-> AssetsChoices[2].kind]>>)}

AttachValues == {JNone, JStr(<<>>), JInt(0), JStr(<<"i", "m", "g">>)}

AttachInputs ==
    { [tree |-> T,
       sidecar |-> JsonFile([signature |-> JStr(<<"7">>),
                             files |-> JList(<<JDict([name |-> JStr(NoteName(1)),
                                                      signature |-> JStr(<<"9">>),
                                                      attachment_folder |-> v])>>)])] :
        T \in AttachTrees, v \in AttachValues }

\* Listings: up to MaxListing of these entries, in any order.
ListingPool ==
    << [name |-> <<"B", ".", "m", "d">>, kind |-> "file"],
       [name |-> <<"a", ".", "m", "d">>, kind |-> "file"],
       [name |-> <<"C", ".", "m", "d">>, kind |-> "file"],
       [name |-> <<"b">>, kind |-> "dir"],
       [name |-> <<"A">>, kind |-> "dir"],
       [name |-> <<"c", ".", "M", "D">>, kind |-> "linkfile"],
       [name |-> <<"d", ".", "m", "d">>, kind |-> "dir"],
       [name |-> <<".", "m", "d">>, kind |-> "file"],
       [name |-> <<"g", "_", "A", "s", "s", "e", "t", "s">>, kind |-> "dir"] >>

ListingChoices ==
    UNION { {ix \in [1..len -> 1..Len(ListingPool)] :
                \A i, j \in 1..len : i # j => ix[i] # ix[j]} : len \in 0..MaxListing }

ListingTrees ==
    { TreeOf([i \in 1..Len(ix) |-> [parent |-> 0, name |-> ListingPool[ix[i]].name,
                                    kind |-> ListingPool[ix[i]].kind]]) :
        ix \in ListingChoices }

NamedEntry(name) == JDict([name |-> JStr(name), signature |-> JStr(<<"9">>)])

\* A sidecar that names notes and folders twice, and some that are gone or left out.
DocDoubled ==
    [signature |-> JStr(<<"7">>),
     files |-> JList(<<NamedEntry(ListingPool[2].name), NamedEntry(ListingPool[2].name),
                       NamedEntry(GoneName), NamedEntry(ListingPool[1].name),
                       NamedEntry(ListingPool[3].name), NamedEntry(ListingPool[8].name)>>),
     folders |-> JList(<<NamedEntry(ListingPool[4].name), NamedEntry(ListingPool[4].name),
                         NamedEntry(ListingPool[9].name), NamedEntry(StrY)>>)]

ListingInputs ==
    { [tree |-> T, sidecar |-> sc] :
        T \in ListingTrees, sc \in {[k |-> "missing"], JsonFile(DocDoubled)} }

BuildInputs == FieldInputs \cup MergeInputs \cup AttachInputs \cup ListingInputs

InitBuild ==
    /\ \E input \in BuildInputs :
          /\ tree = input.tree
          /\ disk = [n \in DOMAIN input.tree |-> IF n = 0 THEN input.sidecar ELSE [k |-> "missing"]]
    /\ mtime = [m \in DOMAIN tree |-> [sec |-> 1, sub |-> TRUE]]
    /\ disk0 = disk
    /\ clock = 1
    /\ pc = "idle"
    /\ dry = TRUE
    /\ verbose = FALSE
    /\ stack = <<>>
    /\ visited = <<>>
    /\ printed = <<>>
    /\ writes = <<>>
    /\ totals = <<0, 0, 0>>
    /\ hist = <<>>
    /\ starts = 0
    /\ arg = <<>>
    /\ res = <<>>

\* The first three statements of rebuild_recursively, for the root: res takes the
\* configuration built, arg the signatures drawn for it.
Build ==
    /\ res = <<>>
    /\ LET existing == load_existing_config(disk[0])
           sc == iter_children(Listing(0))
       IN  \E fresh \in FreshDraws(existing, sc.notes) :
              /\ arg' = <<fresh>>
              /\ res' = <<build_node_config(tree, mtime, clock, 0, sc.folders, sc.notes,
                                            existing, fresh)>>
    /\ UNCHANGED walkVars

SpecBuild == InitBuild /\ [][Build]_vars

---------------------------------------------------------------------------
(* What the claims speak of, said without the operators of the scan        *)

MdSuffix == <<".", "m", "d">>

\* A name a folder is left out for: hidden, an assets folder, a built-in folder.
LeftOutName(name) ==
    \/ name[1] = "."
    \/ EndsWith(Lower(name), <<"_", "a", "s", "s", "e", "t", "s">>)
    \/ Lower(name) \in BUILT_IN_DIR_NAMES

\* A listing entry that is a folder the claims count in, and one that is a note.
CountedFolder(e) == e.kind = "dir" /\ e.name # CONFIG_FILE_NAME /\ ~LeftOutName(e.name)

CountedNote(e) ==
    /\ e.kind = "file"
    /\ e.name # CONFIG_FILE_NAME
    /\ Len(e.name) > Len(MdSuffix)
    /\ EndsWith(Lower(e.name), MdSuffix)

\* The nodes below the root that the traversal must leave alone.
LeftOutNode(n) ==
    /\ n # 0
    /\ \/ tree[n].kind = "dir" /\ LeftOutName(tree[n].name)
       \/ is_symlink(tree[n].kind)

KidsOf(d) == {n \in DOMAIN tree : n # 0 /\ tree[n].parent = d}

FolderKids(d) == {n \in KidsOf(d) : CountedFolder(EntryOf(tree, n))}

NoteKids(d) == {n \in KidsOf(d) : CountedNote(EntryOf(tree, n))}

\* m is n or lies beneath n.
RECURSIVE Under(_, _)
Under(n, m) == IF m = n THEN TRUE ELSE IF m = 0 THEN FALSE ELSE Under(n, tree[m].parent)

\* The nodes of a set by their names, case-insensitively.
RECURSIVE ByName(_)
ByName(S) ==
    IF S = {} THEN <<>>
    ELSE LET first == CHOOSE n \in S :
                        \A m \in S : ~StrLess(Lower(tree[m].name), Lower(tree[n].name))
         IN  <<first>> \o ByName(S \ {first})

\* The directories of the notebook, each before the directories beneath it.
RECURSIVE PreOrder(_)
RECURSIVE PreOrderAll(_)
PreOrder(d) == <<d>> \o PreOrderAll(ByName(FolderKids(d)))
PreOrderAll(ds) == IF ds = <<>> THEN <<>> ELSE PreOrder(Head(ds)) \o PreOrderAll(Tail(ds))

ReportLine(d) == <<d, Cardinality(FolderKids(d)), Cardinality(NoteKids(d))>>

ExpectedReport == LET ds == PreOrder(0) IN [i \in 1..Len(ds) |-> ReportLine(ds[i])]

IsPrefix(a, b) == Len(a) <= Len(b) /\ SubSeq(b, 1, Len(a)) = a

VisitedDirs == {visited[i][1] : i \in 1..Len(visited)}

StackDirs == {stack[i].dir : i \in 1..Len(stack)}

\* The names of a list of entries of a sidecar.
EntryNames(list) == [i \in 1..Len(list.items) |-> list.items[i].d.name.s]

---------------------------------------------------------------------------
(* Claims on the traversal                                                 *)

\* C2: a run started with --dry-run writes nothing: every vx.json, in the root, in the
\* included and in the left-out folders, keeps its contents and none is created; and the
\* run visits the directories and reports the folder and note counts that a real run
\* does, which are those of the notebook's included directories, parents first.
C2_DryRunWritesNothing ==
    /\ dry => disk = disk0 /\ writes = <<>> /\ pc # "crashed"
    /\ dry => printed = visited
    /\ IsPrefix(visited, ExpectedReport)
    /\ pc = "done" => visited = ExpectedReport

\* C2 witness: a dry run has ended on a notebook with a sub-folder and a note, where a
\* real run would have replaced the root's sidecar and created the sub-folder's.
C2_Witness ==
    /\ dry /\ pc = "done"
    /\ Len(visited) = 2
    /\ visited[1] = <<0, 1, 1>>
    /\ printed = visited
    /\ disk[0].k = "json"
    /\ disk[visited[2][1]].k = "missing"

\* C3: a folder below the root that is hidden, an assets folder or a built-in folder,
\* and a symbolic link, is in no folders list written, is never entered, and no sidecar
\* in it or beneath it is read or written; the root is processed whatever its name.
C3_ExclusionRecursive ==
    /\ \A n \in DOMAIN tree :
          LeftOutNode(n) =>
             /\ tree[n].parent \in Range(writes) =>
                   tree[n].name \notin Range(EntryNames(disk[tree[n].parent].data.d.folders))
             /\ \A m \in DOMAIN tree :
                   Under(n, m) =>
                      /\ m \notin VisitedDirs
                      /\ m \notin StackDirs
                      /\ m \notin Range(writes)
                      /\ disk[m] = disk0[m]
    /\ (pc = "done" /\ LeftOutName(tree[0].name)) => 0 \in VisitedDirs
    /\ (pc = "done" /\ ~dry /\ LeftOutName(tree[0].name)) => 0 \in Range(writes)

\* C3 witness: a real run has ended and has written the root's sidecar, which names a
\* folder; a left-out folder with a sidecar of its own holds a folder of a plain name.
C3_Witness ==
    /\ pc = "done" /\ ~dry
    /\ 0 \in Range(writes)
    /\ Len(writes) = 1
    /\ \E n, m \in DOMAIN tree :
          /\ LeftOutNode(n) /\ tree[n].kind = "dir" /\ tree[n].parent = 0
          /\ disk[n].k = "json"
          /\ tree[m].parent = n /\ CountedFolder(EntryOf(tree, m))

\* C8: the run fails if and only if the root is no directory, and then before anything is
\* scanned or written; with a directory as root every anomaly of the existing state is
\* absorbed, and the run ends with every included directory processed and the counts.
C8_OnlyRootIsFatal ==
    /\ pc = "fatal" => ~is_dir(tree[0].kind)
    /\ pc = "fatal" => visited = <<>> /\ writes = <<>> /\ disk = disk0
    /\ (pc # "idle" /\ ~is_dir(tree[0].kind)) => pc = "fatal"
    /\ pc # "crashed"
    /\ pc = "done" =>
          /\ visited = ExpectedReport
          /\ totals[1] = Len(visited)

\* C10: a real run on a directory ends, and by then the sidecar of the root and of every
\* directory reached through included folders is written exactly once, a directory
\* before those beneath it and the folders of a directory in the order of their names;
\* the count returned is the number of sidecars written.
C10_PreOrderTerminates ==
    (pc \in {"done", "crashed"} /\ ~dry) =>
        /\ pc = "done"
        /\ writes = PreOrder(0)
        /\ totals[1] = Len(writes)

\* The fields of a sidecar that a rebuild must leave as they are.
StableFile(e) == <<e.d.name, e.d.id, e.d.signature, e.d.created_time>>

StableFields(doc) ==
    <<doc.id, doc.signature, doc.created_time,
      [i \in 1..Len(doc.files.items) |-> StableFile(doc.files.items[i])],
      EntryNames(doc.folders)>>

\* C1: two real runs in a row, with no other change of the file system between them: for
\* every directory visited, the second sidecar has the names of files and folders, the
\* ids, the signatures and the created_time values of the first.
C1_Idempotent ==
    (/\ Len(hist) = 1
     /\ hist[1].outcome = "done" /\ ~hist[1].dry
     /\ pc = "done" /\ ~dry) =>
        \A d \in Range(writes) :
            StableFields(disk[d].data.d) = StableFields(hist[1].after[d].data.d)

---------------------------------------------------------------------------
(* Claims on the configuration of one directory                            *)

Built == res # <<>>

\* What the root's sidecar held, and the first object of its files that bears the name.
RawRoot == IF disk[0].k = "json" /\ disk[0].data.t = "dict" THEN disk[0].data.d ELSE EmptyDict

Field(d, key) == IF key \in DOMAIN d THEN d[key] ELSE JNone

Named(list, name) ==
    IF list.t # "list" THEN {}
    ELSE {i \in 1..Len(list.items) :
             list.items[i].t = "dict" /\ Field(list.items[i].d, "name") = JStr(name)}

FirstNamed(name) ==
    LET list == Field(RawRoot, "files")
        at == Named(list, name)
    IN  IF at = {} THEN EmptyDict
        ELSE list.items[CHOOSE i \in at : \A j \in at : i <= j].d

OutFiles == [i \in 1..Len(res[1].files.items) |-> res[1].files.items[i].d]

\* A raw value that is an id: a non-negative integer or a string of decimal digits only.
WellFormedId(raw) ==
    \/ raw.t = "int" /\ raw.n >= 0
    \/ raw.t = "str" /\ IsDecimal(raw.s)

DecimalForm(raw) == IF raw.t = "int" THEN NatToStr(raw.n) ELSE raw.s

ExpectedId(raw) == IF WellFormedId(raw) THEN DecimalForm(raw) ELSE <<"0">>

\* A raw value that is a signature to keep: an id that is not zero.
WellFormedSignature(raw) == WellFormedId(raw) /\ ~IsZeroDecimal(DecimalForm(raw))

SignatureAsClaimed(raw, sig, drawn) ==
    /\ IsDecimal(sig)
    /\ ~IsZeroDecimal(sig)
    /\ IF WellFormedSignature(raw)
       THEN sig = DecimalForm(raw)
       ELSE sig = drawn /\ DecLeq(<<"1">>, sig) /\ DecLeq(sig, MaxSig63)

\* C4: the signature of the configuration and of each of its files is a string of
\* decimal digits of a value above zero: the existing one if that is a non-negative
\* integer or a string of digits only, and not zero, and else (missing, boolean, zero,
\* anything other) one freshly drawn from 1..2^63-1.
C4_SignatureInvariant ==
    Built =>
        /\ SignatureAsClaimed(Field(RawRoot, "signature"), res[1].signature.s,
                              arg[1][Len(OutFiles) + 1])
        /\ \A i \in 1..Len(OutFiles) :
              SignatureAsClaimed(Field(FirstNamed(OutFiles[i].name.s), "signature"),
                                 OutFiles[i].signature.s, arg[1][i])

\* C5: the id of the configuration and of each of its files is the decimal form of the
\* existing id if that is a non-negative integer or a string of decimal digits only, and
\* "0" for every other raw value (missing, boolean, any other string or type).
C5_IdsNeverInvented ==
    Built =>
        /\ res[1].id.s = ExpectedId(Field(RawRoot, "id"))
        /\ \A i \in 1..Len(OutFiles) :
              OutFiles[i].id.s = ExpectedId(Field(FirstNamed(OutFiles[i].name.s), "id"))

\* The elements of a tags value that are strings and not empty, in their order.
RECURSIVE KeptTags(_)
KeptTags(items) ==
    IF items = <<>> THEN <<>>
    ELSE (IF Head(items).t = "str" /\ Head(items).s # <<>> THEN <<Head(items)>> ELSE <<>>)
         \o KeptTags(Tail(items))

TagsOf(entry) ==
    IF Field(entry, "tags").t = "list" THEN KeptTags(Field(entry, "tags").items) ELSE <<>>

NoteNamesOnDisk == {tree[n].name : n \in NoteKids(0)}

\* C6: every file of the configuration is a note on disk, so that an existing entry
\* whose file is gone gives none; it is built from the first existing entry of its name,
\* whatever entries of that name follow: its id is that entry's id, its tags are that
\* entry's non-empty strings in their order, and its signature is not "0" even if the
\* entry had none; a note without an entry has the id "0" and no tags.
C6_MergeFirstEntry ==
    Built =>
        \A i \in 1..Len(OutFiles) :
            LET first == FirstNamed(OutFiles[i].name.s)
            IN  /\ OutFiles[i].name.s \in NoteNamesOnDisk
                /\ WellFormedId(Field(first, "id")) =>
                      OutFiles[i].id.s = DecimalForm(Field(first, "id"))
                /\ Field(first, "id") = JNone => OutFiles[i].id.s = <<"0">>
                /\ OutFiles[i].tags.items = TagsOf(first)
                /\ OutFiles[i].signature.s # <<"0">>

\* C6 witness: the sidecar listed an item that is no object, then the first note with
\* id "42", one tag and no signature, then the same note with id 8; the note is on disk
\* and its entry has id "42", that one tag and a signature drawn for it.
C6_Witness ==
    /\ Built
    /\ Field(RawRoot, "files") = JList(<<EntryPool[5], EntryPool[1], EntryPool[2]>>)
    /\ \E i \in 1..Len(OutFiles) :
          /\ OutFiles[i].name.s = NoteName(1)
          /\ OutFiles[i].id.s = <<"4", "2">>
          /\ OutFiles[i].tags.items = <<JStr(StrX)>>
          /\ OutFiles[i].signature.s = arg[1][i]
          /\ arg[1][i] # <<"1">>

\* The note's name without its extension.
NoteStem(name) == SubSeq(name, 1, Len(name) - Len(MdSuffix))

DirKids(d) == {n \in KidsOf(d) : tree[n].kind = "dir"}

\* The directories beside the notes of the root that hold the note's attachments.
AssetsDirs(name) ==
    {n \in DirKids(0) : tree[n].name = NoteStem(name) \o <<"_", "a", "s", "s", "e", "t", "s">>}

VxAttachments == <<"v", "x", "_", "a", "t", "t", "a", "c", "h", "m", "e", "n", "t", "s">>

LegacyAttachments == <<"_", "v", "_", "a", "t", "t", "a", "c", "h", "m", "e", "n", "t", "s">>

\* The attachment roots of a name in the assets directories of a note.
AttachmentRoots(name, rootName) ==
    {r \in UNION {DirKids(a) : a \in AssetsDirs(name)} : tree[r].name = rootName}

SingleRoots(name, rootName) ==
    {r \in AttachmentRoots(name, rootName) : Cardinality(DirKids(r)) = 1}

TheSubdir(r) == tree[CHOOSE m \in DirKids(r) : TRUE].name

\* The existing attachment_folder of a note, "" if it is absent or no string.
GivenAttachment(name) ==
    LET given == Field(FirstNamed(name), "attachment_folder")
    IN  IF given.t = "str" THEN given.s ELSE <<>>

\* The inference as the claim has it: a root with no or with several sub-directories
\* gives the empty string.
InferredAsClaimed(name) ==
    LET roots == AttachmentRoots(name, VxAttachments)
                 \cup AttachmentRoots(name, LegacyAttachments)
    IN  IF roots = {} THEN <<>>
        ELSE IF \E r \in roots : Cardinality(DirKids(r)) # 1 THEN <<>>
        ELSE IF AttachmentRoots(name, VxAttachments) # {}
        THEN TheSubdir(CHOOSE r \in AttachmentRoots(name, VxAttachments) : TRUE)
        ELSE TheSubdir(CHOOSE r \in AttachmentRoots(name, LegacyAttachments) : TRUE)

\* The inference root by root: the first root with a single sub-directory decides.
InferredByRoot(name) ==
    IF SingleRoots(name, VxAttachments) # {}
    THEN TheSubdir(CHOOSE r \in SingleRoots(name, VxAttachments) : TRUE)
    ELSE IF SingleRoots(name, LegacyAttachments) # {}
    THEN TheSubdir(CHOOSE r \in SingleRoots(name, LegacyAttachments) : TRUE)
    ELSE <<>>

\* C7 as stated: a non-empty existing attachment_folder is kept; else the result is the
\* single sub-directory under the attachment root in <stem>_assets, and the empty string
\* in every other condition: no assets folder, no root, a root with no sub-directory or
\* with several, so that two sub-directories of vx_attachments give the empty string.
C7_NeverGuesses ==
    Built =>
        \A i \in 1..Len(OutFiles) :
            OutFiles[i].attachment_folder.s =
                IF GivenAttachment(OutFiles[i].name.s) # <<>>
                THEN GivenAttachment(OutFiles[i].name.s)
                ELSE InferredAsClaimed(OutFiles[i].name.s)

\* C7 amended: a non-empty existing attachment_folder is kept; else the result is the
\* single sub-directory of the first of vx_attachments and _v_attachments that is a
\* directory in <stem>_assets with exactly one sub-directory, and the empty string if
\* neither is one.
C7_FirstSingleRoot ==
    Built =>
        \A i \in 1..Len(OutFiles) :
            OutFiles[i].attachment_folder.s =
                IF GivenAttachment(OutFiles[i].name.s) # <<>>
                THEN GivenAttachment(OutFiles[i].name.s)
                ELSE InferredByRoot(OutFiles[i].name.s)

\* C7 witness: no attachment_folder is recorded, vx_attachments holds two
\* sub-directories and _v_attachments one, whose name is the result.
C7_Witness ==
    /\ Built
    /\ Len(OutFiles) = 1
    /\ GivenAttachment(OutFiles[1].name.s) = <<>>
    /\ \E r \in AttachmentRoots(OutFiles[1].name.s, VxAttachments) :
          Cardinality(DirKids(r)) = 2
    /\ SingleRoots(OutFiles[1].name.s, LegacyAttachments) # {}
    /\ OutFiles[1].attachment_folder.s = <<SubNames[2][1]>>

\* in case-insensitive order
InNameOrder(names) ==
    \A i, j \in 1..Len(names) : i < j => ~StrLess(Lower(names[j]), Lower(names[i]))

\* C9: the files of the configuration are the notes of the directory (regular files,
\* no links, not vx.json, with the extension .md in any case) and its folders are the
\* included sub-folders; no name is there twice, whatever the sidecar held twice, and
\* both lists are in case-insensitive order of the names.
C9_ListShape ==
    Built =>
        /\ Range(EntryNames(res[1].files)) = NoteNamesOnDisk
        /\ Len(res[1].files.items) = Cardinality(NoteKids(0))
        /\ InNameOrder(EntryNames(res[1].files))
        /\ Range(EntryNames(res[1].folders)) = {tree[n].name : n \in FolderKids(0)}
        /\ Len(res[1].folders.items) = Cardinality(FolderKids(0))
        /\ InNameOrder(EntryNames(res[1].folders))

\* C9 witness: the directory lists B.md, a.md, C.md in this order, its sidecar names a.md
\* twice, and the files come out as a.md, B.md, C.md.
C9_Witness ==
    /\ Built
    /\ disk[0] = JsonFile(DocDoubled)
    /\ DOMAIN tree = 0..3
    /\ [n \in 1..3 |-> tree[n].name]
          = <<ListingPool[1].name, ListingPool[2].name, ListingPool[3].name>>
    /\ EntryNames(res[1].files)
          = <<ListingPool[2].name, ListingPool[1].name, ListingPool[3].name>>

====
